---------------------------- MODULE Spec2Model ----------------------------
(***************************************************************************)
(* A model of Sim2Blend/markers.py: load_trc, addMarker and import_trc.    *)
(*                                                                         *)
(* Text is a sequence of one-character strings.  A .trc file is its five   *)
(* preamble lines (text) followed by its numeric rows, each row being      *)
(* <<frame#, time, x1, y1, z1, ...>>.  The host scene is the scene frame   *)
(* rate, the marker collection (objects in link order, each with a name,   *)
(* a location and its location keyframes) and the c3d add-on.              *)
(*                                                                         *)
(* The files of the model have a time column in whole seconds that does    *)
(* not decrease, and target_framerate is a positive integer: the rates and *)
(* the stride of lines 129-130 are then quotients of naturals.             *)
(***************************************************************************)
EXTENDS Integers, Sequences, FiniteSets, TLC

(***************************************************************************)
(* Bounds of the model.                                                    *)
(***************************************************************************)
MaxNames == 2       \* trajectory names in a header line
MaxCoordCols == 6   \* coordinate columns in the numeric rows
MaxSamples == 4     \* numeric rows of a file
MaxDur == 2         \* times[-1] - times[0], in seconds
MaxTarget == 2      \* target_framerate

(***************************************************************************)
(* Text                                                                    *)
(***************************************************************************)
TAB == "\t"
NL == "\n"

\* '\t\t\t', the separator of markers.py line 68
Sep == <<TAB, TAB, TAB>>

\* s[lo:-3] of markers.py line 65, for a start lo and a dropped tail
HeaderStart == 12
HeaderTail == 3

PySlice(s, lo, tail) == SubSeq(s, lo + 1, Len(s) - tail)

\* the first position (1-based) at which sep occurs in s, 0 when there is none
Find(s, sep) ==
    LET hits == {p \in 1..(Len(s) - Len(sep) + 1) :
                    SubSeq(s, p, p + Len(sep) - 1) = sep}
    IN IF hits = {} THEN 0 ELSE CHOOSE p \in hits : \A q \in hits : p <= q

\* str.split(sep) with a non-empty separator: cut at each occurrence found
\* scanning from the left
RECURSIVE Split(_, _)
Split(s, sep) ==
    LET p == Find(s, sep)
    IN IF p = 0 THEN <<s>>
       ELSE <<SubSeq(s, 1, p - 1)>> \o Split(SubSeq(s, p + Len(sep), Len(s)), sep)

\* needle in hay (Python's substring test on strings)
Contains(hay, needle) ==
    \E p \in 1..(Len(hay) - Len(needle) + 1) :
        SubSeq(hay, p, p + Len(needle) - 1) = needle

\* str.endswith
EndsWith(s, suffix) ==
    /\ Len(s) >= Len(suffix)
    /\ SubSeq(s, Len(s) - Len(suffix) + 1, Len(s)) = suffix

\* int(a / b) for b > 0: the float quotient cut towards zero
IntDiv(a, b) == IF a >= 0 THEN a \div b ELSE -((-a) \div b)


(***************************************************************************)
(* Inputs: paths, .trc files, arguments                                    *)
(***************************************************************************)
TrcExt == <<".", "t", "r", "c">>
C3dExt == <<".", "c", "3", "d">>

TrcPaths == {<<"m">> \o TrcExt}
C3dPaths == {<<"m">> \o C3dExt, <<"m">> \o TrcExt \o C3dExt}
OtherPaths == {<<"m", ".", "t", "x", "t">>, <<"m", ".", "T", "R", "C">>,
               <<"t", "r", "c">>, <<"m">> \o C3dExt \o <<"x">>, <<>>}
Paths == TrcPaths \cup C3dPaths \cup OtherPaths

Directions == {"zup", "yup", "xup"}
Targets == 1..MaxTarget

\* trajectory names: two of which one is a substring of the other, and a third
Names == {<<"b">>, <<"a", "b">>, <<"c">>}

RECURSIVE SeqsUpTo(_, _)
SeqsUpTo(S, k) ==
    IF k = 0 THEN {<<>>}
    ELSE LET shorter == SeqsUpTo(S, k - 1)
         IN shorter \cup {Append(q, x) : q \in shorter, x \in S}

NameLists == SeqsUpTo(Names, MaxNames) \ {<<>>}

RECURSIVE Join(_, _)
Join(parts, sep) ==
    IF Len(parts) = 0 THEN <<>>
    ELSE IF Len(parts) = 1 THEN parts[1]
    ELSE parts[1] \o sep \o Join(Tail(parts), sep)

\* the line of a .trc file that names the trajectories: 'Frame#\tTime\t',
\* the names three tabs apart, two tabs and the line end
Label == <<"F", "r", "a", "m", "e", "#", TAB, "T", "i", "m", "e", TAB>>
NamesLine(names, tail) == Label \o Join(names, Sep) \o tail

Line0 == <<"P", "a", "t", "h", NL>>
Line1 == <<"D", "a", "t", "a", "R", "a", "t", "e", NL>>
Line2 == <<"3", "0", TAB, "3", "0", NL>>
Line4 == <<TAB, TAB, "X", "1", TAB, "Y", "1", TAB, "Z", "1", NL>>

\* the numeric rows: row n (0-based) is <<frame#, time, coordinates>>; the time
\* column runs from 0 to dur without decreasing, the coordinates are distinct
\* and non-zero
Time(n, N, dur) == IF N <= 1 THEN 0 ELSE (n * dur) \div (N - 1)
Coord(n, c) == 100 * (n + 1) + c
Rows(N, C, dur) ==
    [r \in 1..N |-> <<r, Time(r - 1, N, dur)>> \o [c \in 1..C |-> Coord(r - 1, c)]]

File(l2, l3, rows) == [head |-> <<Line0, Line1, l2, l3, Line4>>, rows |-> rows]

\* well-formed files, given to import_trc
Files ==
    {File(Line2, NamesLine(names, <<TAB, TAB, NL>>), Rows(N, C, dur)) :
        names \in NameLists, N \in 1..MaxSamples, C \in 0..MaxCoordCols,
        dur \in 0..MaxDur}

\* what may stand on lines 2 and 3 of a file given to load_trc
HeaderLines ==
    {NamesLine(names, tail) :
        names \in NameLists,
        tail \in {<<TAB, TAB, NL>>, <<TAB, TAB, TAB, NL>>, <<NL>>}}
    \cup {Line2, <<NL>>}

LoadFiles ==
    {File(l2, l3, Rows(N, 3, 1)) :
        l2 \in HeaderLines, l3 \in HeaderLines, N \in 1..2}

NoFile == [head |-> <<>>, rows |-> <<>>]

(***************************************************************************)
(* State                                                                   *)
(***************************************************************************)
VARIABLES
    entry,              \* the function called: "import_trc" or "load_trc"
    trc_path,           \* argument
    direction,          \* argument
    target_framerate,   \* argument
    file,               \* the file at trc_path
    pc,                 \* position in the code
    err,                \* the exception that ended the call, "" when none
    li,                 \* load_trc: i of enumerate(f)
    fpos,               \* load_trc: lines of f read so far
    trc_header,         \* load_trc
    trc_data_np,        \* load_trc's first result
    markerNames,        \* load_trc's second result
    scene_fps,          \* bpy.context.scene.render.fps
    fps,                \* import_trc
    conv_fac_frame_rate,\* import_trc
    linked,             \* the 'markers' collection is linked to the scene
    objects,            \* marker_collection.objects, in link order
    i,                  \* import_trc: index of the loops over markerNames
    m,                  \* import_trc: the object name resolved for markerNames[i]
    n,                  \* import_trc: sample index of the inner loop
    inserted,           \* history of the keyframe_insert calls
    addon_enabled,      \* the io_anim_c3d add-on is enabled
    c3d_loads           \* history of the c3d_importer.load calls

vars == <<entry, trc_path, direction, target_framerate, file, pc, err, li, fpos,
          trc_header, trc_data_np, markerNames, scene_fps, fps,
          conv_fac_frame_rate, linked, objects, i, m, n, inserted,
          addon_enabled, c3d_loads>>

args == <<entry, trc_path, direction, target_framerate, file>>
loadLocals == <<li, fpos, trc_header>>
loaded == <<trc_data_np, markerNames>>
rate == <<fps, conv_fac_frame_rate>>
scene == <<scene_fps, linked, objects, addon_enabled, c3d_loads>>
loops == <<i, m, n>>

\* the scene's frame rate before the call: a rate no call of the model asks for
HostFps == MaxTarget + 1

InitLocals ==
    /\ err = ""
    /\ li = 0 /\ fpos = 0 /\ trc_header = <<>>
    /\ trc_data_np = <<>> /\ markerNames = <<>>
    /\ scene_fps = HostFps
    /\ fps = 0 /\ conv_fac_frame_rate = 0
    /\ linked = FALSE /\ objects = <<>>
    /\ i = 0 /\ m = <<>> /\ n = 0
    /\ inserted = <<>>
    /\ addon_enabled = FALSE /\ c3d_loads = <<>>

\* a call of import_trc
Init ==
    /\ entry = "import_trc"
    /\ trc_path \in Paths
    /\ direction \in Directions
    /\ target_framerate \in Targets
    /\ file \in IF trc_path \in TrcPaths THEN Files ELSE {NoFile}
    /\ pc = "import_trc"
    /\ InitLocals

\* a call of load_trc
InitLoad ==
    /\ entry = "load_trc"
    /\ trc_path \in TrcPaths
    /\ direction = "zup"
    /\ target_framerate = 1
    /\ file \in LoadFiles
    /\ pc = "loadtxt"
    /\ InitLocals

(***************************************************************************)
(* Exceptions: nothing in markers.py catches one, so the call ends where   *)
(* the exception is raised and everything done so far stays.               *)
(***************************************************************************)
\* as Raise, but undoing what the import did to the scene
RaiseAndRollBack(kind) ==
    /\ pc' = "error"
    /\ err' = kind
    /\ scene_fps' = HostFps
    /\ linked' = FALSE
    /\ objects' = <<>>
    /\ UNCHANGED <<args, loadLocals, loaded, rate, addon_enabled, c3d_loads,
                   loops, inserted>>

Raise(kind) ==
    /\ pc' = "error"
    /\ err' = kind
    /\ UNCHANGED <<args, loadLocals, loaded, rate, scene, loops, inserted>>

(***************************************************************************)
(* load_trc                                                                *)
(***************************************************************************)
\* np.loadtxt(trc_path, skiprows=5): the numeric rows as a 2-D array, but a
\* 1-D array when there is at most one row (loadtxt squeezes its result)
Is2D(rows) == Len(rows) >= 2

\* [:,1:]: every row without its first column
DropFirstColumn(rows) == [r \in 1..Len(rows) |-> Tail(rows[r])]

\* line 59
LoadTxt ==
    /\ pc = "loadtxt"
    /\ IF Is2D(file.rows)
       THEN /\ trc_data_np' = DropFirstColumn(file.rows)
            /\ pc' = "for_line"
            /\ UNCHANGED <<args, loadLocals, markerNames, rate, scene, loops,
                           inserted, err>>
       ELSE Raise("IndexError")   \* too many indices for a 1-D array

\* the text lines of the file: those of the head, then one per numeric row
NumLines(f) == Len(f.head) + Len(f.rows)
LineAt(f, k) == IF k < Len(f.head) THEN f.head[k + 1] ELSE <<"0", NL>>

\* as Readline, but the line the iteration has just read
CurrentLine(f, pos) == LineAt(f, pos - 1)

\* f.readline(): the next line, '' at the end of the file
Readline(f, pos) == IF pos < NumLines(f) THEN LineAt(f, pos) ELSE <<>>

\* lines 62-67, one iteration of `for i, line in enumerate(f)`: the iteration
\* reads a line; at i == 2 readline() reads the line after it
ForLine ==
    /\ pc = "for_line"
    /\ IF fpos >= NumLines(file)
       THEN \* the file is exhausted
            /\ pc' = "split"
            /\ UNCHANGED loadLocals
       ELSE /\ li' = li + 1
            /\ IF li = 2
               THEN /\ trc_header' = PySlice(Readline(file, fpos + 1),
                                             HeaderStart, HeaderTail)
                    /\ fpos' = fpos + 2
                    /\ pc' = "for_line"
               ELSE /\ fpos' = fpos + 1
                    /\ pc' = IF li > 2 THEN "split" ELSE "for_line"
                    /\ UNCHANGED trc_header
    /\ UNCHANGED <<args, loaded, rate, scene, loops, inserted, err>>

\* lines 68-70
SplitHeader ==
    /\ pc = "split"
    /\ markerNames' = Split(trc_header, Sep)
    /\ pc' = IF entry = "import_trc" THEN "set_fps" ELSE "returned"
    /\ UNCHANGED <<args, loadLocals, trc_data_np, rate, scene, loops, inserted, err>>

NextLoad == LoadTxt \/ ForLine \/ SplitHeader

SpecLoad == InitLoad /\ [][NextLoad]_vars

(***************************************************************************)
(* addMarker                                                               *)
(***************************************************************************)
Digits == <<"1", "2", "3", "4", "5", "6", "7", "8", "9">>

\* bpy.data.objects.new(text, mesh): the object is named text, or text with
\* the first free suffix .001, .002, ... when that name is taken
RECURSIVE UniqueName(_, _, _)
UniqueName(text, taken, k) ==
    LET name == IF k = 0 THEN text ELSE text \o <<".", "0", "0", Digits[k]>>
    IN IF name \in taken THEN UniqueName(text, taken, k + 1) ELSE name

ObjectNames(objs) == [k \in 1..Len(objs) |-> objs[k].name]

\* lines 97-105: a sphere named after the marker, at the origin, linked to the
\* collection (its mesh and material carry no state of the import)
NewSphere(objs, text) ==
    [name |-> UniqueName(text, {objs[k].name : k \in 1..Len(objs)}, 0),
     location |-> <<0, 0, 0>>,
     keys |-> <<>>]

(***************************************************************************)
(* import_trc                                                              *)
(***************************************************************************)
\* as IsTrc, but '.trc' anywhere in the path
HasTrc(path) == Contains(path, TrcExt)

\* line 121
IsTrc(path) == EndsWith(path, TrcExt)

\* line 157
IsC3d(path) == ~IsTrc(path) /\ EndsWith(path, C3dExt)

\* line 129, for N = len(times) and dur = times[-1] - times[0] > 0
IntrinsicRate(N, dur) == IntDiv(N - 1, dur)

\* as Stride, but rounding to the nearest integer
StrideRounded(f, t) == IntDiv(2 * f + t, 2 * t)

\* as Stride, but never less than 1
StrideAtLeastOne(f, t) == IF IntDiv(f, t) = 0 THEN 1 ELSE IntDiv(f, t)

\* line 130
Stride(f, t) == IntDiv(f, t)

\* as FrameOf, but numbering by the sample index
FrameOfSample(sample, k) == sample + 1

\* line 155
FrameOf(sample, k) == IntDiv(sample, k) + 1

\* as Remap, but taking every direction other than 'yup' for 'zup'
RemapZupElse(dir, a, b, c) == IF dir = "yup" THEN <<a, c, b>> ELSE <<a, -c, b>>

\* lines 145-152 and 154: the location written for the raw triple (a, b, c)
Remap(dir, a, b, c) == IF dir = "zup" THEN <<a, -c, b>> ELSE <<a, c, b>>

\* lines 141-142: the first object name of the collection that contains name
Resolve(name, objnames) ==
    objnames[CHOOSE k \in 1..Len(objnames) :
                /\ Contains(objnames[k], name)
                /\ \A j \in 1..(k - 1) : ~Contains(objnames[j], name)]

\* marker_collection.objects[m]
ObjectIndex(objs, name) ==
    CHOOSE k \in 1..Len(objs) :
        /\ objs[k].name = name
        /\ \A j \in 1..(k - 1) : objs[j].name # name

\* range(start, stop, step) for a step other than 0
InRange(x, stop, step) == IF step > 0 THEN x < stop ELSE x > stop

RECURSIVE PyRange(_, _, _)
PyRange(start, stop, step) ==
    IF InRange(start, stop, step)
    THEN <<start>> \o PyRange(start + step, stop, step)
    ELSE <<>>

\* as ColumnsInRange, but one column further
ColumnsInRangeShifted(marker, ncols) == 3 * marker + 4 < ncols

\* numpy's bounds check of the columns 3*i+1 .. 3*i+3 read for marker i
ColumnsInRange(marker, ncols) == 3 * marker + 3 < ncols

\* trc_data_np[row, col], 0-based
At(data, row, col) == data[row + 1][col + 1]
NumCols(data) == Len(data[1])

\* line 121: the path ends with '.trc'
EnterTrc ==
    /\ pc = "import_trc"
    /\ IsTrc(trc_path)
    /\ pc' = "loadtxt"
    /\ UNCHANGED <<args, loadLocals, loaded, rate, scene, loops, inserted, err>>

\* lines 157-161: the path ends with '.c3d'
ImportC3d ==
    /\ pc = "import_trc"
    /\ IsC3d(trc_path)
    /\ addon_enabled' = TRUE
    /\ c3d_loads' = Append(c3d_loads, trc_path)
    /\ pc' = "done"
    /\ UNCHANGED <<args, loadLocals, loaded, rate, scene_fps, linked, objects,
                   loops, inserted, err>>

\* neither branch of lines 121 and 157 is taken: the function returns
FallThrough ==
    /\ pc = "import_trc"
    /\ ~IsTrc(trc_path)
    /\ ~IsC3d(trc_path)
    /\ pc' = "done"
    /\ UNCHANGED <<args, loadLocals, loaded, rate, scene, loops, inserted, err>>

\* line 126
SetFps ==
    /\ pc = "set_fps"
    /\ scene_fps' = target_framerate
    /\ pc' = "rate"
    /\ UNCHANGED <<args, loadLocals, loaded, rate, linked, objects, addon_enabled,
                   c3d_loads, loops, inserted, err>>

\* lines 128-130; a zero duration makes the quotient infinite and int() raises
ComputeRate ==
    /\ pc = "rate"
    /\ LET N == Len(trc_data_np)
           dur == At(trc_data_np, N - 1, 0) - At(trc_data_np, 0, 0)
       IN IF dur = 0
          THEN Raise("OverflowError")
          ELSE /\ fps' = IntrinsicRate(N, dur)
               /\ conv_fac_frame_rate' = Stride(IntrinsicRate(N, dur), target_framerate)
               /\ pc' = "new_collection"
               /\ UNCHANGED <<args, loadLocals, loaded, scene, loops, inserted, err>>

\* lines 134-135
NewCollection ==
    /\ pc = "new_collection"
    /\ linked' = TRUE
    /\ objects' = <<>>
    /\ i' = 0
    /\ pc' = "add_marker"
    /\ UNCHANGED <<args, loadLocals, loaded, rate, scene_fps, addon_enabled,
                   c3d_loads, m, n, inserted, err>>

\* lines 136-137, one iteration (markerNames is never empty)
AddMarker ==
    /\ pc = "add_marker"
    /\ objects' = Append(objects, NewSphere(objects, markerNames[i + 1]))
    /\ i' = IF i + 1 < Len(markerNames) THEN i + 1 ELSE 0
    /\ pc' = IF i + 1 < Len(markerNames) THEN "add_marker" ELSE "resolve"
    /\ UNCHANGED <<args, loadLocals, loaded, rate, scene_fps, linked,
                   addon_enabled, c3d_loads, m, n, inserted, err>>

\* lines 140-142, the head of one iteration of the loop over markerNames
ResolveMarker ==
    /\ pc = "resolve"
    /\ m' = Resolve(markerNames[i + 1], ObjectNames(objects))
    /\ pc' = "range"
    /\ UNCHANGED <<args, loadLocals, loaded, rate, scene, i, n, inserted, err>>

\* what follows the inner loop: the next marker name, or the end of the branch
AfterSamples == IF i + 1 < Len(markerNames) THEN "resolve" ELSE "done"

\* line 143: range(0, len(times), conv_fac_frame_rate)
EnterRange ==
    /\ pc = "range"
    /\ IF conv_fac_frame_rate = 0
       THEN Raise("ValueError")     \* range() arg 3 must not be zero
       ELSE /\ n' = 0
            /\ IF InRange(0, Len(trc_data_np), conv_fac_frame_rate)
               THEN pc' = "sample" /\ UNCHANGED i
               ELSE pc' = AfterSamples /\ i' = i + 1
            /\ UNCHANGED <<args, loadLocals, loaded, rate, scene, m, inserted, err>>

\* lines 144-155, one iteration of the loop over the samples
AnimateSample ==
    /\ pc = "sample"
    /\ IF ~ColumnsInRange(i, NumCols(trc_data_np))
       THEN Raise("IndexError")     \* a column index out of bounds
       ELSE LET loc == Remap(direction,
                             At(trc_data_np, n, 3 * i + 1),
                             At(trc_data_np, n, 3 * i + 2),
                             At(trc_data_np, n, 3 * i + 3))
                k == ObjectIndex(objects, m)
                frame == FrameOf(n, conv_fac_frame_rate)
            IN /\ objects' = [objects EXCEPT ![k].location = loc,
                                             ![k].keys = (frame :> loc) @@ @]
               /\ inserted' = Append(inserted,
                                     [obj |-> k, traj |-> i, sample |-> n,
                                      frame |-> frame, loc |-> loc])
               /\ IF InRange(n + conv_fac_frame_rate, Len(trc_data_np),
                             conv_fac_frame_rate)
                  THEN /\ n' = n + conv_fac_frame_rate
                       /\ pc' = "sample"
                       /\ UNCHANGED i
                  ELSE /\ n' = n
                       /\ pc' = AfterSamples
                       /\ i' = i + 1
               /\ UNCHANGED <<args, loadLocals, loaded, rate, scene_fps, linked,
                              addon_enabled, c3d_loads, m, err>>

Next ==
    \/ EnterTrc \/ ImportC3d \/ FallThrough
    \/ LoadTxt \/ ForLine \/ SplitHeader
    \/ SetFps \/ ComputeRate \/ NewCollection \/ AddMarker
    \/ ResolveMarker \/ EnterRange \/ AnimateSample

Spec == Init /\ [][Next]_vars

(***************************************************************************)
(* Properties                                                              *)
(***************************************************************************)
\* the file as the caller wrote it: its samples, the span of its time column,
\* its coordinate columns
NumSamples == Len(file.rows)
Duration == file.rows[NumSamples][2] - file.rows[1][2]
NumCoordCols == Len(file.rows[1]) - 2
RawTriple(sample, marker) ==
    <<file.rows[sample + 1][3 * marker + 3],
      file.rows[sample + 1][3 * marker + 4],
      file.rows[sample + 1][3 * marker + 5]>>

TrcImport == entry = "import_trc" /\ trc_path \in TrcPaths

\* lines 128-130 have been executed
RateComputed == TrcImport /\ (linked \/ pc = "new_collection")

\* the keyframe_insert calls made for marker index j, in order
EntriesOf(j) == SelectSeq(inserted, LAMBDA e : e.traj = j)

\* the inner loop of marker index j has run to its end
WalkDone(j) ==
    /\ TrcImport
    /\ j < Len(markerNames)
    /\ \/ pc = "done"
       \/ pc \in {"resolve", "range", "sample", "error"} /\ linked /\ j < i

\* C1: with N samples, intrinsic rate f and target rate t the stride is
\* floor(f/t), the walk of a marker starts at sample 0 and retains exactly
\* floor((N-1)/k) + 1 samples, every one of them when t = f; f = 120, t = 30
\* and N = 121 give stride 4 and 31 samples.
C1_Decimation ==
    /\ RateComputed =>
         LET f == (NumSamples - 1) \div Duration
             k == f \div target_framerate
         IN /\ fps = f
            /\ conv_fac_frame_rate = k
            /\ target_framerate = f => k = 1
            /\ \A j \in 0..(Len(markerNames) - 1) :
                 (WalkDone(j) /\ k >= 1) =>
                   /\ Len(EntriesOf(j)) = (NumSamples - 1) \div k + 1
                   /\ \A q \in 1..Len(EntriesOf(j)) :
                        EntriesOf(j)[q].sample = (q - 1) * k
                   /\ k = 1 => Len(EntriesOf(j)) = NumSamples
    /\ Stride(120, 30) = 4
    /\ Len(PyRange(0, 121, Stride(120, 30))) = 31

\* a finished import that kept 2 of 4 samples
C1_Witness ==
    /\ TrcImport /\ pc = "done"
    /\ NumSamples = 4 /\ conv_fac_frame_rate = 3
    /\ Len(EntriesOf(0)) = 2

\* C2: the keyframes of a marker's walk are numbered from 1 without gap or
\* repeat: the q-th retained sample (0-based, n = q*k) is recorded at frame
\* q+1, and the frames used are exactly 1..(number of retained samples).
C2_FrameNumbering ==
    /\ \A x \in 1..Len(inserted) :
         LET e == inserted[x]
             q == Cardinality({y \in 1..(x - 1) : inserted[y].traj = e.traj})
         IN /\ e.sample = q * conv_fac_frame_rate
            /\ e.frame = q + 1
    /\ \A j \in 0..(Len(markerNames) - 1) :
         WalkDone(j) =>
           /\ {EntriesOf(j)[q].frame : q \in 1..Len(EntriesOf(j))}
                = 1..((NumSamples - 1) \div conv_fac_frame_rate + 1)
           /\ \A q, r \in 1..Len(EntriesOf(j)) :
                EntriesOf(j)[q].frame = EntriesOf(j)[r].frame => q = r
    /\ \A o \in 1..Len(objects) :
         /\ objects[o].keys # <<>> => 1 \in DOMAIN objects[o].keys
         /\ \A fr \in DOMAIN objects[o].keys :
              fr > 1 => (fr - 1) \in DOMAIN objects[o].keys

\* a walk with stride 2 that recorded sample 2 at frame 2
C2_Witness ==
    /\ TrcImport /\ pc = "done"
    /\ conv_fac_frame_rate = 2
    /\ \E x \in 1..Len(inserted) : inserted[x].sample = 2 /\ inserted[x].frame = 2

\* the samples a walk with a stride k >= 1 retains
Retained == (NumSamples - 1) \div conv_fac_frame_rate + 1

\* C3: a successful import creates one marker per trajectory name, and each
\* marker gets its position and a keyframe exactly once per retained sample,
\* from the columns of its own trajectory; no marker is left without keyframes.
C3_OneMarkerPerName ==
    (TrcImport /\ pc = "done") =>
      /\ Len(objects) = Len(markerNames)
      /\ \A o \in 1..Len(objects) :
           LET writes == SelectSeq(inserted, LAMBDA e : e.obj = o)
           IN /\ Len(writes) = Retained
              /\ \A x \in 1..Len(writes) : writes[x].traj = o - 1
              /\ objects[o].keys # <<>>

\* C4: the position written for marker i at sample n is (a, -c, b) for 'zup'
\* and (a, c, b) for any other direction, (a, b, c) being the columns 3i+1,
\* 3i+2, 3i+3 of the sample.
C4_AxisRemap ==
    \A x \in 1..Len(inserted) :
      LET e == inserted[x]
          t == RawTriple(e.sample, e.traj)
          later == {y \in (x + 1)..Len(inserted) :
                      inserted[y].obj = e.obj /\ inserted[y].frame = e.frame}
      IN /\ e.loc = IF direction = "zup"
                    THEN <<t[1], -t[3], t[2]>>
                    ELSE <<t[1], t[3], t[2]>>
         /\ later = {} => objects[e.obj].keys[e.frame] = e.loc
         /\ x = Len(inserted) => objects[e.obj].location = e.loc

\* a finished import with a direction that is neither 'zup' nor 'yup'
C4_Witness ==
    /\ TrcImport /\ pc = "done"
    /\ direction = "xup"
    /\ Len(inserted) >= 2

\* C5: import_trc never returns normally for a path that ends with neither
\* '.trc' nor '.c3d'.
C5_FailsOnOtherPath ==
    (entry = "import_trc" /\ trc_path \in OtherPaths) => pc # "done"

\* C6 as claimed: the stride is 0 whenever the target rate is at least the
\* intrinsic rate, and at least 1 only when the intrinsic rate is greater.
C6_Original ==
    RateComputed =>
      /\ target_framerate >= fps => conv_fac_frame_rate = 0
      /\ conv_fac_frame_rate >= 1 => fps > target_framerate

\* C6: the stride is 0 exactly when the target rate is greater than the
\* intrinsic rate, and then no sample is retained; a target rate equal to the
\* intrinsic rate gives stride 1.
C6_StrideZero ==
    RateComputed =>
      /\ target_framerate > fps => conv_fac_frame_rate = 0
      /\ target_framerate = fps => conv_fac_frame_rate = 1
      /\ conv_fac_frame_rate >= 1 <=> fps >= target_framerate
      /\ conv_fac_frame_rate = 0 => inserted = <<>>

\* an import stopped by the zero stride of a target rate above the intrinsic rate
C6_Witness ==
    /\ RateComputed
    /\ target_framerate > fps /\ fps > 0
    /\ conv_fac_frame_rate = 0
    /\ pc = "error" /\ err = "ValueError"

\* the complete x,y,z triples among the coordinate columns
NumTriples == NumCoordCols \div 3

\* the import was stopped inside the loops of lines 140-155
AbortedInLoops ==
    /\ TrcImport /\ pc = "error"
    /\ \/ err = "ValueError"
       \/ err = "IndexError" /\ trc_data_np # <<>>

\* C7 as claimed: a file whose number of names differs from (columns - 1) / 3
\* is never imported successfully.
C7_Original ==
    (TrcImport /\ markerNames # <<>> /\ 3 * Len(markerNames) # NumCoordCols)
      => pc # "done"

\* C7: with more names than complete column triples the import never ends
\* successfully, and the index error is raised at sample 0 of the first marker
\* without a complete triple; with no more names than triples no index error
\* is raised in the loops.
C7_MoreNamesThanTriples ==
    TrcImport =>
      /\ pc = "done" => Len(markerNames) <= NumTriples
      /\ (AbortedInLoops /\ err = "IndexError") =>
           /\ Len(markerNames) > NumTriples
           /\ i = NumTriples
           /\ n = 0
           /\ EntriesOf(i) = <<>>
      /\ (AbortedInLoops /\ conv_fac_frame_rate # 0) => err = "IndexError"

\* two names, four coordinate columns: the import stops at the second marker
C7_Witness ==
    /\ AbortedInLoops /\ err = "IndexError"
    /\ Len(markerNames) = 2 /\ NumCoordCols = 4
    /\ i = 1

\* C8: an import stopped in the loops leaves the scene frame rate at the target
\* rate, the collection and one marker per name in the scene, and every
\* keyframe recorded for the markers before the failing one; a zero stride
\* stops it before any keyframe.  Markers are all created before any keyframe.
C8_NoCleanup ==
    /\ AbortedInLoops =>
         /\ scene_fps = target_framerate
         /\ linked
         /\ Len(objects) = Len(markerNames)
         /\ err = "ValueError" =>
              /\ inserted = <<>>
              /\ \A o \in 1..Len(objects) : objects[o].keys = <<>>
         /\ err = "IndexError" =>
              /\ \A j \in 0..(i - 1) : Len(EntriesOf(j)) = Retained
              /\ \A x \in 1..Len(inserted) :
                   /\ inserted[x].traj < i
                   /\ inserted[x].obj \in 1..Len(objects)
                   /\ inserted[x].frame \in DOMAIN objects[inserted[x].obj].keys
    /\ inserted # <<>> => Len(objects) = Len(markerNames)

\* an import stopped at its second marker, after the keyframes of the first
C8_Witness ==
    /\ AbortedInLoops /\ err = "IndexError"
    /\ i = 1 /\ conv_fac_frame_rate = 2
    /\ Len(inserted) = 2

\* C10: for a path ending with '.c3d' import_trc does not load the file, leaves
\* the scene frame rate, creates no collection and no marker, records no
\* keyframe, and hands the path once to the host importer, whatever direction
\* and target_framerate are.
C10_C3dDelegates ==
    (entry = "import_trc" /\ trc_path \in C3dPaths) =>
      /\ pc \in {"import_trc", "done"}
      /\ err = ""
      /\ trc_data_np = <<>> /\ markerNames = <<>> /\ fpos = 0
      /\ scene_fps = HostFps
      /\ ~linked /\ objects = <<>>
      /\ inserted = <<>>
      /\ c3d_loads = IF pc = "done" THEN <<trc_path>> ELSE <<>>

\* a .c3d import that has returned, called with a direction and a rate other
\* than the defaults
C10_Witness ==
    /\ entry = "import_trc" /\ trc_path \in C3dPaths
    /\ pc = "done"
    /\ direction = "yup" /\ target_framerate = MaxTarget
    /\ Len(c3d_loads) = 1

(***************************************************************************)
(* Properties of load_trc, under SpecLoad                                  *)
(***************************************************************************)
Returned == entry = "load_trc" /\ pc = "returned"

\* the line of the file with 0-based index k
HeaderLine(k) == file.head[k + 1]

\* names are the pieces of the line between its first 12 and its last 3
\* characters, cut at each run of three tabs met from the left
NamesOfLine(names, line) ==
    IF Len(line) < HeaderStart + HeaderTail
    THEN names = <<<<>>>>
    ELSE /\ Len(names) >= 1
         /\ line = SubSeq(line, 1, HeaderStart) \o Join(names, Sep)
                     \o SubSeq(line, Len(line) - HeaderTail + 1, Len(line))
         /\ \A k \in 1..(Len(names) - 1) : ~Contains(names[k] \o <<TAB, TAB>>, Sep)
         /\ ~Contains(names[Len(names)], Sep)

NameA == <<"a", "b">>
NameB == <<"b">>

\* a line whose part after the label is 'A<3 tabs>B<3 tabs>', then the line end
ThreeTabsLine == NamesLine(<<NameA, NameB>>, <<TAB, TAB, TAB, NL>>)

\* the line as .trc files have it: two tabs and the line end after the last name
TwoTabsLine == NamesLine(<<NameA, NameB>>, <<TAB, TAB, NL>>)

\* C9 as claimed: the names are those of the line with index 2, and a name
\* part 'A<3 tabs>B<3 tabs>' gives exactly [A, B].
C9_Original ==
    Returned =>
      /\ NamesOfLine(markerNames, HeaderLine(2))
      /\ HeaderLine(2) = ThreeTabsLine => markerNames = <<NameA, NameB>>

\* C9: the names are those of the line with index 3, the one readline() reads
\* when the iteration is at index 2: its first 12 and last 3 characters (the
\* line end among them) dropped, the rest split at three tabs.  A line ending
\* 'A<3 tabs>B<2 tabs>' and the line end gives [A, B]; the name part
\* 'A<3 tabs>B<3 tabs>' before the line end gives [A, B<tab>].
C9_NamesFromLine3 ==
    Returned =>
      /\ NamesOfLine(markerNames, HeaderLine(3))
      /\ HeaderLine(3) = TwoTabsLine => markerNames = <<NameA, NameB>>
      /\ HeaderLine(3) = ThreeTabsLine => markerNames = <<NameA, NameB \o <<TAB>>>>

\* load_trc has returned [A, B] for a file whose line 2 is not its line 3
C9_Witness ==
    /\ Returned
    /\ HeaderLine(3) = TwoTabsLine
    /\ HeaderLine(2) # HeaderLine(3)
    /\ markerNames = <<NameA, NameB>>

=============================================================================
